---- MODULE Spec2Model ----
(***************************************************************************)
(* Verification model of the consensus processes of rusty-kaspa:           *)
(*   consensus/src/processes/traversal_manager.rs  (BoundedSizeBlockHeap,  *)
(*                                                  DagTraversalManager)   *)
(*   consensus/src/processes/difficulty.rs         (DifficultyManager,     *)
(*                                                  calc_work)             *)
(* and of two components around them:                                      *)
(*   notify/src/collector.rs                       (CollectorFrom)         *)
(*   protocol/flows/src/flowcontext/transactions.rs (TransactionsSpread)   *)
(* Each component has its own specification (SpecHeap, SpecDiff, ...) over *)
(* the shared variables; a specification leaves the variables of the other *)
(* components at their idle values.                                        *)
(***************************************************************************)
EXTENDS Integers, Sequences, FiniteSets, Bags, TLC

VARIABLES
    \* ---- BoundedSizeBlockHeap (traversal_manager.rs:122-153)
    size_bound,     \* BoundedSizeBlockHeap.size_bound
    binary_heap,    \* BoundedSizeBlockHeap.binary_heap, a bag of SortableBlock
    pushed,         \* history: the bag of all blocks handed to try_push
    candidate,      \* history: the block of the last try_push (NoBlock before)
    pre_heap,       \* history: binary_heap as it was before the last try_push
    ret,            \* the value returned by the last try_push ("none" before)
    \* ---- calc_work (difficulty.rs:125-135)
    work_bits,      \* the argument bits of calc_work
    work_out,       \* what the call produced: NotCalled, Panic or the work
    \* ---- DifficultyManager (difficulty.rs:21-123)
    headers_store,  \* the header store: hash -> [timestamp, bits]
    genesis_bits,   \* DifficultyManager.genesis_bits
    difficulty_adjustment_window_size,
    target_time_per_block,
    window,         \* the BlockWindowHeap of the call, in its iteration order
    bits_out,       \* calculate_difficulty_bits: NotCalled, Panic or the bits
    \* ---- calc_daa_score_and_non_daa_mergeset_blocks (difficulty.rs:38-58)
    ghostdag_store, \* the ghostdag store: hash -> blue work (a partial function)
    ghostdag_data,  \* the GhostdagData of the call
    daa_out,        \* DaaNotCalled or the returned [daa_score, mergeset_non_daa]
    \* ---- DagTraversalManager::anticone (traversal_manager.rs:60-98)
    relations_store,        \* the relations store: block -> its parents
    block,                  \* the argument block of the call
    tips,                   \* the argument tips, the sequence the iterator yields
    max_traversal_allowed,  \* Option<u64>: {} for None, {m} for Some(m)
    anticone_out,           \* AnticoneNotCalled or the outcome of the call
    \* ---- DagTraversalManager chain queries (traversal_manager.rs:43-58, 100-119)
    compact_data,   \* the ghostdag store: block -> [blue_score, selected_parent]
    from,           \* the argument from of calculate_chain_path
    to,             \* the argument to of calculate_chain_path
    chain_path_out, \* ChainNotCalled, Panic or the ChainPath [added, removed]
    high,           \* the argument high of lowest_chain_block_above_or_equal_to_blue_score
    blue_score,     \* its argument blue_score
    lowest_out,     \* NotCalled, Panic or the record of the walk with the block returned
    \* ---- estimate_network_hashes_per_second (difficulty.rs:96-122)
    hashes_out,     \* EstimateNotCalled or the outcome of the call
    \* ---- CollectorFrom (notify/src/collector.rs:49-145)
    is_started,     \* CollectorFrom.is_started
    request,        \* collect_shutdown.request: has the trigger fired?
    response,       \* collect_shutdown.response: has the trigger fired?
    recv_channel,   \* the items sent and not yet received by a collecting task
    sent,           \* history: every item sent on the channel, in order
    notified,       \* what the notifier was given, in order
    tasks,          \* the collecting tasks: id -> [pc, item]
    stop_pc,        \* where the caller of stop is: "idle" or "awaiting"
    stop_ret,       \* the value returned by the last stop ("none" before)
    stop_tasks,     \* history: the tasks running when the last stop took the flag,
                    \* then those of them still running when it returned Ok
    \* ---- TransactionsSpread (protocol/flows/src/flowcontext/transactions.rs:21-71)
    transaction_ids,        \* TransactionsSpread.transaction_ids
    last_broadcast_time,    \* TransactionsSpread.last_broadcast_time
    clock,                  \* what Instant::now() returns
    broadcast_pc,           \* where the call of broadcast is: "idle", "while" or "body"
    broadcast_ret           \* the value returned by the last broadcast ("none" before)

heapVars == <<size_bound, binary_heap, pushed, candidate, pre_heap, ret>>
workVars == <<work_bits, work_out>>
diffVars == <<headers_store, genesis_bits, difficulty_adjustment_window_size,
              target_time_per_block, window, bits_out>>

daaVars == <<ghostdag_store, ghostdag_data, daa_out>>

anticoneVars == <<relations_store, block, tips, max_traversal_allowed, anticone_out>>

chainVars == <<compact_data, from, to, chain_path_out, high, blue_score, lowest_out>>

estimateVars == <<hashes_out>>

collectorVars == <<is_started, request, response, recv_channel, sent, notified, tasks,
                   stop_pc, stop_ret, stop_tasks>>

broadcastVars == <<transaction_ids, last_broadcast_time, clock, broadcast_pc,
                   broadcast_ret>>

flowVars == <<collectorVars, broadcastVars>>

vars == <<heapVars, workVars, diffVars, daaVars, anticoneVars, chainVars, estimateVars,
          flowVars>>

----------------------------------------------------------------------------
(* Bounds of the model *)

NumHashes == 2
MaxBlueWork == 1
MaxSizeBound == 2
MaxPushes == 4
NumHeaders == 3
NumDaaBlocks == 3
MaxDaaScore == 1
NumBlocks == 4
MaxTips == 2
MaxTraversal == 1
NumChainBlocks == 5
MaxSpawns == 2
MaxSends == 2
NumTxIds == 3
MaxTime == 3

----------------------------------------------------------------------------
(* Unsigned integers.  The model checker computes on machine integers, so  *)
(* the wide types are scaled down and keep the relations the code relies   *)
(* on: BlueWorkType (192 bits) is three quarters of Uint256, and Uint320   *)
(* is as wide as a Uint256 times a u64.  Arithmetic is checked: a result   *)
(* that does not fit is the outcome Panic.                                 *)

Uint256Bits == 16
U64Bits == 14
BlueWorkBits == 12
ByteBits == 2
Uint320Bits == Uint256Bits + U64Bits

Uint256Modulus == 2 ^ Uint256Bits
Uint320Modulus == 2 ^ Uint320Bits
BlueWorkModulus == 2 ^ BlueWorkBits
U64Modulus == 2 ^ U64Bits

\* DIFFICULTY_MAX: Uint256::from_u64(1).wrapping_shl(255) - 1
DIFFICULTY_MAX == 2 ^ (Uint256Bits - 1) - 1

\* BlueWorkType::MAX
BlueWorkTypeMAX == BlueWorkModulus - 1

\* outcomes of a call that are not values
Panic == -1
NotCalled == Panic - 1

\* Uint::bits(): the number of significant bits
RECURSIVE BitLen(_)
BitLen(n) == IF n = 0 THEN 0 ELSE 1 + BitLen(n \div 2)

\* compact target bits: a size in bytes above a mantissa of three bytes whose
\* top bit is the sign
MantissaModulus == 2 ^ (3 * ByteBits)
SignBit == MantissaModulus \div 2
CompactBits == 0..(MantissaModulus * 2 ^ (2 * ByteBits) - 1)

\* Uint256::from_compact_target_bits
from_compact_target_bits(bits) ==
    LET unshifted_expt == bits \div MantissaModulus
        mant == IF unshifted_expt <= 3
                THEN (bits % MantissaModulus) \div 2 ^ (ByteBits * (3 - unshifted_expt))
                ELSE bits % MantissaModulus
        expt == IF unshifted_expt <= 3 THEN 0 ELSE ByteBits * (unshifted_expt - 3)
    IN  IF mant > SignBit - 1 THEN 0
        ELSE IF expt >= Uint256Bits THEN 0
        ELSE (mant * 2 ^ expt) % Uint256Modulus

\* Uint256::compact_target_bits
compact_target_bits(v) ==
    LET size == (BitLen(v) + ByteBits - 1) \div ByteBits
        compact == IF size <= 3
                   THEN v * 2 ^ (ByteBits * (3 - size))
                   ELSE (v \div 2 ^ (ByteBits * (size - 3))) % MantissaModulus
    IN  IF (compact \div SignBit) % 2 = 1
        THEN compact \div 2 ^ ByteBits + (size + 1) * MantissaModulus
        ELSE compact + size * MantissaModulus

----------------------------------------------------------------------------
(* calc_work *)

\* !target / (target + 1), Panic when target + 1 overflows
WorkQuotient(target) ==
    IF target + 1 >= Uint256Modulus THEN Panic
    ELSE (Uint256Modulus - 1 - target) \div (target + 1)

\* a mutant of calc_work: the final + 1 is forgotten
calc_work_no_increment(bits) ==
    LET q == WorkQuotient(from_compact_target_bits(bits))
    IN  IF q = Panic THEN Panic
        ELSE IF q >= BlueWorkModulus THEN Panic
        ELSE q

\* a mutant of calc_work: the final + 1 wraps around instead of failing
calc_work_wrapping(bits) ==
    LET q == WorkQuotient(from_compact_target_bits(bits))
        res == IF q = Panic THEN Panic ELSE (q + 1) % Uint256Modulus
    IN  IF res = Panic THEN Panic
        ELSE IF res >= BlueWorkModulus THEN Panic
        ELSE res

\* calc_work(bits): the work, or Panic
calc_work(bits) ==
    LET target == from_compact_target_bits(bits)
        q == WorkQuotient(target)
        res == IF q = Panic \/ q + 1 >= Uint256Modulus THEN Panic ELSE q + 1
    IN  IF res = Panic THEN Panic
        ELSE IF res >= BlueWorkModulus THEN Panic
        ELSE res

WorkIdle ==
    /\ work_bits = 0
    /\ work_out = NotCalled

WorkInit ==
    /\ work_bits \in CompactBits
    /\ work_out = NotCalled

\* one call of calc_work(work_bits)
CalcWork ==
    /\ work_out = NotCalled
    /\ work_out' = calc_work(work_bits)
    /\ UNCHANGED <<work_bits, heapVars, diffVars, daaVars, anticoneVars, chainVars,
                   estimateVars,
                   flowVars>>

\* C8: whenever calc_work(bits) returns (the work fits the work type), the
\* value is floor(~t / (t+1)) + 1 on the width of the target type, t being
\* the target decoded from bits, and it equals floor(2^width / (t+1)).
C8_WorkFormula ==
    work_out \notin {NotCalled, Panic} =>
      LET t == from_compact_target_bits(work_bits) IN
        /\ work_out = ((Uint256Modulus - 1 - t) \div (t + 1)) + 1
        /\ work_out = Uint256Modulus \div (t + 1)

\* C8 witness: calc_work returned a work above 1 for a target that does not
\* divide the modulus.
C8_Witness ==
    /\ work_out \notin {NotCalled, Panic}
    /\ work_out > 1
    /\ Uint256Modulus % (from_compact_target_bits(work_bits) + 1) # 0

\* C9: calc_work decreases as the target grows: for bits b2 of a larger
\* target than the bits given, the work returned for b2 is not larger, and
\* calc_work returns for b2 whenever it returns for the bits given.
C9_WorkMonotone ==
    work_out \notin {NotCalled, Panic} =>
      \A b2 \in CompactBits :
        from_compact_target_bits(work_bits) < from_compact_target_bits(b2) =>
          /\ calc_work(b2) # Panic
          /\ work_out >= calc_work(b2)

\* C9 witness: calc_work returned for bits that have both bits of a larger
\* target with strictly less work and bits of a smaller target.
C9_Witness ==
    /\ work_out \notin {NotCalled, Panic}
    /\ \E b2 \in CompactBits :
         /\ from_compact_target_bits(work_bits) < from_compact_target_bits(b2)
         /\ calc_work(b2) < work_out
    /\ \E b0 \in CompactBits :
         /\ from_compact_target_bits(b0) < from_compact_target_bits(work_bits)
         /\ calc_work(b0) # Panic

----------------------------------------------------------------------------
(* SortableBlock { hash, blue_work } and its order *)

Hashes == 1..NumHashes
BlueWorks == 0..MaxBlueWork
SortableBlocks == [hash : Hashes, blue_work : BlueWorks]
NoBlock == [hash |-> 0, blue_work |-> 0]

\* impl Ord for SortableBlock: blue_work first, then hash
SortableLess(a, b) ==
    \/ a.blue_work < b.blue_work
    \/ a.blue_work = b.blue_work /\ a.hash < b.hash

\* impl Ord for std::cmp::Reverse<SortableBlock>
ReverseLess(a, b) == SortableLess(b, a)

----------------------------------------------------------------------------
(* BlockWindowHeap = BinaryHeap<Reverse<SortableBlock>> as a bag *)

\* BinaryHeap::peek: the greatest item in Reverse order (heap must be non-empty)
HeapPeek(heap) ==
    CHOOSE m \in BagToSet(heap) : \A o \in BagToSet(heap) : ~ReverseLess(m, o)

\* BinaryHeap::pop: removes the greatest item in Reverse order, if any
HeapPop(heap) ==
    IF BagToSet(heap) = {} THEN heap ELSE heap (-) SetToBag({HeapPeek(heap)})

\* BinaryHeap::push
HeapPush(heap, r) == heap (+) SetToBag({r})

\* BoundedSizeBlockHeap::reached_size_bound
reached_size_bound(heap, bound) == BagCardinality(heap) = bound

\* a mutant of try_push: the comparison with the peeked item is turned around
try_push_flipped(heap, bound, r) ==
    IF reached_size_bound(heap, bound)
    THEN IF BagToSet(heap) # {} /\ ReverseLess(r, HeapPeek(heap))
         THEN [heap |-> heap, ret |-> "false"]
         ELSE [heap |-> HeapPush(HeapPop(heap), r), ret |-> "true"]
    ELSE [heap |-> HeapPush(heap, r), ret |-> "true"]

\* a mutant of try_push: at the bound the candidate is admitted without the pop
try_push_no_evict(heap, bound, r) ==
    IF reached_size_bound(heap, bound)
    THEN IF BagToSet(heap) # {} /\ ReverseLess(HeapPeek(heap), r)
         THEN [heap |-> heap, ret |-> "false"]
         ELSE [heap |-> HeapPush(heap, r), ret |-> "true"]
    ELSE [heap |-> HeapPush(heap, r), ret |-> "true"]

\* BoundedSizeBlockHeap::try_push, as a function of the heap: the new heap and
\* the returned bool ("true" or "false")
try_push(heap, bound, r) ==
    IF reached_size_bound(heap, bound)
    THEN IF BagToSet(heap) # {} /\ ReverseLess(HeapPeek(heap), r)
         THEN [heap |-> heap, ret |-> "false"]
         ELSE [heap |-> HeapPush(HeapPop(heap), r), ret |-> "true"]
    ELSE [heap |-> HeapPush(heap, r), ret |-> "true"]

HeapIdle ==
    /\ size_bound = 0
    /\ binary_heap = EmptyBag
    /\ pushed = EmptyBag
    /\ candidate = NoBlock
    /\ pre_heap = EmptyBag
    /\ ret = "none"

\* BoundedSizeBlockHeap::new(size_bound)
HeapInit ==
    /\ size_bound \in 0..MaxSizeBound
    /\ binary_heap = EmptyBag
    /\ pushed = EmptyBag
    /\ candidate = NoBlock
    /\ pre_heap = EmptyBag
    /\ ret = "none"

\* one call of try_push(hash, blue_work)
TryPush ==
    /\ BagCardinality(pushed) < MaxPushes
    /\ \E r \in SortableBlocks :
         LET out == try_push(binary_heap, size_bound, r) IN
           /\ binary_heap' = out.heap
           /\ ret' = out.ret
           /\ candidate' = r
           /\ pre_heap' = binary_heap
           /\ pushed' = pushed (+) SetToBag({r})
    /\ UNCHANGED <<size_bound, workVars, diffVars, daaVars, anticoneVars, chainVars,
                   estimateVars,
                   flowVars>>

----------------------------------------------------------------------------
(* DifficultyManager::calculate_difficulty_bits *)

HeaderHashes == 1..NumHeaders
HeaderTimestamps == {0, 3}
HeaderBits == {compact_target_bits(7), compact_target_bits(DIFFICULTY_MAX)}
WindowBlueWorks == {0, 1}
TargetTimes == {1, 2}
\* the configured window sizes: none required, or as many as there are headers
WindowSizes == {0, NumHeaders}
GenesisBitsChoices == {compact_target_bits(DIFFICULTY_MAX)}

\* DifficultyManager::get_difficulty_blocks: one DifficultyBlock per window
\* item, in the iteration order of the window
get_difficulty_blocks(store, w) ==
    [i \in 1..Len(w) |->
        [timestamp |-> store[w[i].hash].timestamp,
         bits |-> store[w[i].hash].bits,
         sortable_block |-> w[i]]]

\* a mutant of DifficultyLess: only the timestamps are compared
DifficultyLessTimestampOnly(a, b) == a.timestamp < b.timestamp

\* impl Ord for DifficultyBlock: the timestamp, then the sortable block
DifficultyLess(a, b) ==
    \/ a.timestamp < b.timestamp
    \/ a.timestamp = b.timestamp /\ SortableLess(a.sortable_block, b.sortable_block)

\* a mutant of position_min: the first block of minimum timestamp, whatever
\* its blue work and hash
position_min_first_timestamp(blocks) ==
    CHOOSE i \in 1..Len(blocks) :
        /\ \A j \in 1..Len(blocks) : blocks[i].timestamp <= blocks[j].timestamp
        /\ \A j \in 1..(i - 1) : blocks[j].timestamp > blocks[i].timestamp

\* Itertools::position_minmax().into_option(): None for no element, else the
\* position of the first minimum and of the last maximum
position_min(blocks) ==
    CHOOSE i \in 1..Len(blocks) :
        /\ \A j \in 1..Len(blocks) : ~DifficultyLess(blocks[j], blocks[i])
        /\ \A j \in 1..(i - 1) : DifficultyLess(blocks[i], blocks[j])

position_max(blocks) ==
    CHOOSE i \in 1..Len(blocks) :
        /\ \A j \in 1..Len(blocks) : ~DifficultyLess(blocks[i], blocks[j])
        /\ \A j \in (i + 1)..Len(blocks) : DifficultyLess(blocks[j], blocks[i])

\* Vec::swap_remove(index): the last element takes the place of the removed
swap_remove(blocks, i) ==
    IF i = Len(blocks) THEN SubSeq(blocks, 1, Len(blocks) - 1)
    ELSE [SubSeq(blocks, 1, Len(blocks) - 1) EXCEPT ![i] = blocks[Len(blocks)]]

\* the sum in Uint320 of the targets of the blocks
RECURSIVE targets_sum(_)
targets_sum(blocks) ==
    IF blocks = <<>> THEN 0
    ELSE from_compact_target_bits(Head(blocks).bits) + targets_sum(Tail(blocks))

Max(a, b) == IF a >= b THEN a ELSE b

\* a mutant of new_difficulty_bits: the average is divided by the target time
\* before it is multiplied by the elapsed time
new_difficulty_bits_divide_first(blocks, target_time) ==
    IF Len(blocks) < 2 THEN Panic
    ELSE
    LET min_ts_index == position_min(blocks)
        max_ts_index == position_max(blocks)
        min_ts == blocks[min_ts_index].timestamp
        max_ts == blocks[max_ts_index].timestamp
        rest == swap_remove(blocks, min_ts_index)
        difficulty_blocks_len == Len(rest)
        average_target == targets_sum(rest) \div difficulty_blocks_len
        new_target == ((average_target \div target_time) * Max(max_ts - min_ts, 1))
                          \div difficulty_blocks_len
    IN  IF new_target >= Uint256Modulus THEN Panic
        ELSE compact_target_bits(new_target)

\* a mutant of new_difficulty_bits: the block of minimum timestamp stays in
\* the working set
new_difficulty_bits_keep_min(blocks, target_time) ==
    IF blocks = <<>> THEN Panic
    ELSE
    LET min_ts == blocks[position_min(blocks)].timestamp
        max_ts == blocks[position_max(blocks)].timestamp
        difficulty_blocks_len == Len(blocks)
        average_target == targets_sum(blocks) \div difficulty_blocks_len
        new_target == ((average_target * Max(max_ts - min_ts, 1)) \div target_time)
                          \div difficulty_blocks_len
    IN  IF new_target >= Uint256Modulus THEN Panic
        ELSE compact_target_bits(new_target)

\* lines 78-93 of calculate_difficulty_bits, for a window that passed the
\* size check
new_difficulty_bits(blocks, target_time) ==
    IF blocks = <<>> THEN Panic      \* into_option().unwrap() of None
    ELSE
    LET min_ts_index == position_min(blocks)
        max_ts_index == position_max(blocks)
        min_ts == blocks[min_ts_index].timestamp
        max_ts == blocks[max_ts_index].timestamp
        rest == swap_remove(blocks, min_ts_index)
        difficulty_blocks_len == Len(rest)
        sum == targets_sum(rest)
    IN  IF difficulty_blocks_len = 0 THEN Panic     \* division by zero
        ELSE
        LET average_target == sum \div difficulty_blocks_len
            product == average_target * Max(max_ts - min_ts, 1)
            new_target == (product \div target_time) \div difficulty_blocks_len
        IN  IF sum >= Uint320Modulus \/ product >= Uint320Modulus THEN Panic
            ELSE IF new_target >= Uint256Modulus THEN Panic  \* try_from().expect()
            ELSE compact_target_bits(new_target)

\* a mutant of calculate_difficulty_bits: the size check is off by one
calculate_difficulty_bits_off_by_one(store, gbits, window_size, target_time, w) ==
    LET difficulty_blocks == get_difficulty_blocks(store, w)
    IN  IF Len(difficulty_blocks) + 1 < window_size THEN gbits
        ELSE new_difficulty_bits(difficulty_blocks, target_time)

\* DifficultyManager::calculate_difficulty_bits
calculate_difficulty_bits(store, gbits, window_size, target_time, w) ==
    LET difficulty_blocks == get_difficulty_blocks(store, w)
    IN  IF Len(difficulty_blocks) < window_size THEN gbits
        ELSE new_difficulty_bits(difficulty_blocks, target_time)

DiffIdle ==
    /\ headers_store = <<>>
    /\ genesis_bits = 0
    /\ difficulty_adjustment_window_size = 0
    /\ target_time_per_block = 1
    /\ window = <<>>
    /\ bits_out = NotCalled

\* DifficultyManager::new over an empty chain
DiffInit ==
    /\ headers_store = <<>>
    /\ genesis_bits \in GenesisBitsChoices
    /\ difficulty_adjustment_window_size \in WindowSizes
    /\ target_time_per_block \in TargetTimes
    /\ window = <<>>
    /\ bits_out = NotCalled

\* a block with its header enters the store and the window
ExtendWindow ==
    /\ bits_out = NotCalled
    /\ \E h \in HeaderHashes \ DOMAIN headers_store :
       \E ts \in HeaderTimestamps, b \in HeaderBits, bw \in WindowBlueWorks :
         /\ headers_store' = (h :> [timestamp |-> ts, bits |-> b]) @@ headers_store
         /\ window' = Append(window, [hash |-> h, blue_work |-> bw])
    /\ UNCHANGED <<genesis_bits, difficulty_adjustment_window_size,
                   target_time_per_block, bits_out, heapVars, workVars, daaVars,
                   anticoneVars, chainVars, estimateVars,
                   flowVars>>

\* one call of calculate_difficulty_bits(window)
CalculateDifficultyBits ==
    /\ bits_out = NotCalled
    /\ bits_out' = calculate_difficulty_bits(headers_store, genesis_bits,
                        difficulty_adjustment_window_size, target_time_per_block, window)
    /\ UNCHANGED <<headers_store, genesis_bits, difficulty_adjustment_window_size,
                   target_time_per_block, window, heapVars, workVars, daaVars,
                   anticoneVars, chainVars, estimateVars,
                   flowVars>>

----------------------------------------------------------------------------
(* DifficultyManager::calc_daa_score_and_non_daa_mergeset_blocks *)

DaaHashes == 1..NumDaaBlocks
DaaBlueWorks == {0, 1, BlueWorkTypeMAX}

\* Hash::default(), the hash of no block
DefaultHash == 0

\* BlockWindowHeap::peek on the window in its iteration order: the greatest
\* item in Reverse order, None (NoBlock) for an empty window
window_peek(w) ==
    IF w = <<>> THEN NoBlock
    ELSE w[CHOOSE i \in 1..Len(w) : \A j \in 1..Len(w) : ~ReverseLess(w[i], w[j])]

\* a sequence of the sortable blocks of a set of hashes in ascending order
RECURSIVE AscendingBlocks(_, _)
AscendingBlocks(store, hs) ==
    IF hs = {} THEN <<>>
    ELSE LET h == CHOOSE x \in hs : \A y \in hs \ {x} :
                      SortableLess([hash |-> x, blue_work |-> store[x]],
                                   [hash |-> y, blue_work |-> store[y]])
         IN  <<[hash |-> h, blue_work |-> store[h]]>> \o AscendingBlocks(store, hs \ {h})

\* GhostdagData::ascending_mergeset_without_selected_parent(store)
ascending_mergeset_without_selected_parent(gd, store) ==
    AscendingBlocks(store, (gd.mergeset_blues \cup gd.mergeset_reds) \ {gd.selected_parent})

\* GhostdagData::mergeset_size
mergeset_size(gd) == Cardinality(gd.mergeset_blues) + Cardinality(gd.mergeset_reds)

\* store.get_blue_work(hash).unwrap_or_default()
blue_work_or_default(store, h) == IF h \in DOMAIN store THEN store[h] ELSE 0

\* Iterator::take_while(|b| b < lowest)
RECURSIVE take_while_below(_, _)
take_while_below(blocks, lowest) ==
    IF blocks = <<>> THEN <<>>
    ELSE IF SortableLess(Head(blocks), lowest)
         THEN <<Head(blocks)>> \o take_while_below(Tail(blocks), lowest)
         ELSE <<>>

\* a mutant of take_while_below: Iterator::filter in the place of take_while
RECURSIVE filter_below(_, _)
filter_below(blocks, lowest) ==
    IF blocks = <<>> THEN <<>>
    ELSE IF SortableLess(Head(blocks), lowest)
         THEN <<Head(blocks)>> \o filter_below(Tail(blocks), lowest)
         ELSE filter_below(Tail(blocks), lowest)

\* the blocks the call classifies, in the order it meets them
chained_mergeset(gd, store) ==
    ascending_mergeset_without_selected_parent(gd, store)
        \o <<[hash |-> gd.selected_parent,
              blue_work |-> blue_work_or_default(store, gd.selected_parent)]>>

\* a mutant of calc_daa_score_and_non_daa_mergeset_blocks: every block below
\* the lowest window block is taken, not only the leading ones
calc_daa_score_filtering(hstore, w, gd, store) ==
    LET default_lowest_block == [hash |-> DefaultHash, blue_work |-> BlueWorkTypeMAX]
        window_lowest_block == IF w = <<>> THEN default_lowest_block ELSE window_peek(w)
        taken == filter_below(chained_mergeset(gd, store), window_lowest_block)
        mergeset_non_daa == {taken[i].hash : i \in 1..Len(taken)}
        sp_daa_score == hstore[gd.selected_parent].daa_score
    IN  [daa_score |-> sp_daa_score + (mergeset_size(gd) - Cardinality(mergeset_non_daa)),
         mergeset_non_daa |-> mergeset_non_daa]

\* DifficultyManager::calc_daa_score_and_non_daa_mergeset_blocks
calc_daa_score_and_non_daa_mergeset_blocks(hstore, w, gd, store) ==
    LET default_lowest_block == [hash |-> DefaultHash, blue_work |-> BlueWorkTypeMAX]
        window_lowest_block == IF w = <<>> THEN default_lowest_block ELSE window_peek(w)
        taken == take_while_below(chained_mergeset(gd, store), window_lowest_block)
        mergeset_non_daa == {taken[i].hash : i \in 1..Len(taken)}
        sp_daa_score == hstore[gd.selected_parent].daa_score
    IN  [daa_score |-> sp_daa_score + (mergeset_size(gd) - Cardinality(mergeset_non_daa)),
         mergeset_non_daa |-> mergeset_non_daa]

\* the value of daa_out before the call
DaaNotCalled == [daa_score |-> NotCalled, mergeset_non_daa |-> {}]

DaaIdle ==
    /\ ghostdag_store = <<>>
    /\ ghostdag_data = [selected_parent |-> 0, mergeset_blues |-> {}, mergeset_reds |-> {}]
    /\ daa_out = DaaNotCalled

\* the sequences that hold each element of a set once
RECURSIVE SeqOfSet(_)
SeqOfSet(S) ==
    IF S = {} THEN <<>>
    ELSE LET x == CHOOSE y \in S : \A z \in S : y <= z
         IN  <<x>> \o SeqOfSet(S \ {x})

\* A block under scoring: its selected parent (the first blue), its other
\* blues and its reds, the blue works the ghostdag store holds (every mergeset
\* and window block has one, the selected parent may have none), the DAA
\* score of the selected parent, and a window of blocks of the store.
DaaInit ==
    \E sp \in DaaHashes :
    \E blues \in SUBSET (DaaHashes \ {sp}) :
    \E reds \in SUBSET (DaaHashes \ ({sp} \cup blues)) :
    \E known \in {D \in SUBSET DaaHashes : blues \cup reds \subseteq D /\ D \cup {sp} = DaaHashes} :
    \E members \in SUBSET known :
        /\ ghostdag_store \in [known -> DaaBlueWorks]
        /\ ghostdag_data = [selected_parent |-> sp,
                            mergeset_blues |-> {sp} \cup blues,
                            mergeset_reds |-> reds]
        /\ headers_store \in [{sp} -> [daa_score : 0..MaxDaaScore]]
        /\ window = [i \in 1..Cardinality(members) |->
                        [hash |-> SeqOfSet(members)[i],
                         blue_work |-> ghostdag_store[SeqOfSet(members)[i]]]]
        /\ daa_out = DaaNotCalled
        /\ genesis_bits = 0
        /\ difficulty_adjustment_window_size = 0
        /\ target_time_per_block = 1
        /\ bits_out = NotCalled

\* one call of calc_daa_score_and_non_daa_mergeset_blocks
CalcDaaScore ==
    /\ daa_out = DaaNotCalled
    /\ daa_out' = calc_daa_score_and_non_daa_mergeset_blocks(
                      headers_store, window, ghostdag_data, ghostdag_store)
    /\ UNCHANGED <<ghostdag_store, ghostdag_data, heapVars, workVars, diffVars,
                   anticoneVars, chainVars, estimateVars,
                   flowVars>>

----------------------------------------------------------------------------
(* DagTraversalManager::anticone *)

Blocks == 1..NumBlocks

\* the genesis block, the only block without parents
Genesis == 1

\* the DAGs: every block but genesis has parents among the blocks before it
Dags ==
    {r \in [Blocks -> SUBSET Blocks] :
        /\ r[Genesis] = {}
        /\ \A b \in Blocks \ {Genesis} : r[b] # {} /\ r[b] \subseteq 1..(b - 1)}

\* the blocks reachable from b through one or more parent edges
RECURSIVE Past(_)
Past(b) ==
    relations_store[b] \cup UNION {Past(p) : p \in relations_store[b]}

\* ReachabilityService::is_dag_ancestor_of(this, queried): queried is this
\* or is in the future of this
is_dag_ancestor_of(this, queried) == this = queried \/ this \in Past(queried)

\* RelationsStoreReader::get_parents, the parents in ascending order
get_parents(b) == SeqOfSet(relations_store[b])

\* a mutant of emitted: the check against the future of block is forgotten
emitted_always(current, b) == TRUE

\* line 88: the dequeued block goes to the result
emitted(current, b) == ~is_dag_ancestor_of(b, current)

\* a mutant of skipped: no dequeued block is taken for an ancestor of block
skipped_never(current, b) == FALSE

\* line 75: the dequeued block is in the past of block or is block
skipped(current, b) == is_dag_ancestor_of(current, b)

\* a mutant of exceeds_limit: the limit itself already fails
exceeds_limit_inclusive(count, max) == \E m \in max : count >= m

\* lines 82-83: a limit is set and the traversal count is above it
exceeds_limit(count, max) == \E m \in max : count > m

\* a mutant of already_visited: no block is taken for visited
already_visited_never(current, visited) == FALSE

\* line 71: visited.insert(current) finds the block in the set
already_visited(current, visited) == current \in visited

\* The while loop of anticone on the state st = [queue, visited, anticone,
\* traversal_count, dequeued, expanded]; dequeued counts the blocks popped
\* from the queue and expanded lists the blocks whose parents were enqueued.
RECURSIVE anticone_loop(_, _, _)
anticone_loop(st, b, max) ==
    IF st.queue = <<>> THEN [status |-> "ok", st |-> st]
    ELSE
    LET current == Head(st.queue)
        popped == [st EXCEPT !.queue = Tail(@), !.dequeued = @ + 1]
    IN  IF already_visited(current, st.visited) THEN anticone_loop(popped, b, max)
        ELSE
        LET seen == [popped EXCEPT !.visited = @ \cup {current}]
        IN  IF skipped(current, b) THEN anticone_loop(seen, b, max)
            ELSE
            LET counted == [seen EXCEPT !.traversal_count = @ + 1]
            IN  IF exceeds_limit(counted.traversal_count, max)
                THEN [status |-> "err", st |-> counted]
                ELSE anticone_loop(
                       [counted EXCEPT
                          !.anticone = IF emitted(current, b)
                                       THEN Append(@, current) ELSE @,
                          !.queue = @ \o get_parents(current),
                          !.expanded = Append(@, current)],
                       b, max)

\* DagTraversalManager::anticone(block, tips, max_traversal_allowed): status
\* "ok" with the result in st.anticone, or status "err" for
\* ReachedMaxTraversalAllowed(st.traversal_count, max_traversal_allowed)
anticone(b, ts, max) ==
    anticone_loop([queue |-> ts, visited |-> {}, anticone |-> <<>>,
                   traversal_count |-> 0, dequeued |-> 0, expanded |-> <<>>], b, max)

\* the value of anticone_out before the call
AnticoneNotCalled == [status |-> "none"]

AnticoneIdle ==
    /\ relations_store = <<>>
    /\ block = 0
    /\ tips = <<>>
    /\ max_traversal_allowed = {}
    /\ anticone_out = AnticoneNotCalled

AnticoneInit ==
    /\ relations_store \in Dags
    /\ block = 0
    /\ tips = <<>>
    /\ max_traversal_allowed = {}
    /\ anticone_out = AnticoneNotCalled

TipSequences == UNION {[1..n -> Blocks] : n \in 0..MaxTips}

\* one call of anticone(block, tips, max_traversal_allowed)
Anticone ==
    /\ anticone_out = AnticoneNotCalled
    /\ \E b \in Blocks, ts \in TipSequences,
          max \in {{}} \cup {{m} : m \in 0..MaxTraversal} :
         /\ block' = b
         /\ tips' = ts
         /\ max_traversal_allowed' = max
         /\ anticone_out' = anticone(b, ts, max)
    /\ UNCHANGED <<relations_store, heapVars, workVars, diffVars, daaVars, chainVars,
                   estimateVars,
                   flowVars>>

----------------------------------------------------------------------------
(* DagTraversalManager::calculate_chain_path and
   lowest_chain_block_above_or_equal_to_blue_score *)

ChainBlocks == 1..NumChainBlocks

\* the origin, the selected parent of genesis
Origin == 0

\* the amounts by which the blue score grows from a selected parent to its child
BlueScoreSteps == {1, 2}

\* the value of chain_path_out before the call
ChainNotCalled == [status |-> "none"]

\* the value of lowest_out before the call
LowestNotCalled == [status |-> "none"]

\* the value of hashes_out before the call
EstimateNotCalled == [status |-> "none"]

ChainIdle ==
    /\ compact_data = <<>>
    /\ from = 0
    /\ to = 0
    /\ chain_path_out = ChainNotCalled
    /\ high = 0
    /\ blue_score = 0
    /\ lowest_out = LowestNotCalled

EstimateIdle == hashes_out = EstimateNotCalled

\* The ghostdag stores: genesis has blue score 0 and the origin for selected
\* parent, every other block has an earlier block for selected parent and a
\* blue score above its selected parent's.
RECURSIVE blue_score_of(_, _, _)
blue_score_of(sp, step, b) ==
    IF b = Genesis THEN 0 ELSE blue_score_of(sp, step, sp[b]) + step[b]

CompactDataStores ==
    {[b \in ChainBlocks |->
         [blue_score |-> blue_score_of(sp, step, b),
          selected_parent |-> IF b = Genesis THEN Origin ELSE sp[b]]] :
       sp \in {f \in [ChainBlocks -> ChainBlocks] :
                  \A b \in ChainBlocks \ {Genesis} : f[b] < b},
       step \in [ChainBlocks -> BlueScoreSteps]}

ChainInit ==
    /\ compact_data \in CompactDataStores
    /\ from = 0
    /\ to = 0
    /\ chain_path_out = ChainNotCalled
    /\ high = 0
    /\ blue_score = 0
    /\ lowest_out = LowestNotCalled

\* ReachabilityService::default_backward_chain_iterator(from): the selected
\* chain from the block down to genesis, the origin excluded
RECURSIVE default_backward_chain_iterator(_)
default_backward_chain_iterator(b) ==
    IF b = Origin THEN <<>>
    ELSE <<b>> \o default_backward_chain_iterator(compact_data[b].selected_parent)

\* ReachabilityService::is_chain_ancestor_of(this, queried): this is queried
\* or is on the selected chain below queried
is_chain_ancestor_of(this, queried) ==
    LET chain == default_backward_chain_iterator(queried)
    IN  \E i \in 1..Len(chain) : chain[i] = this

\* ReachabilityService::backward_chain_iterator(from_descendant, to_ancestor,
\* inclusive): the selected chain from the descendant down to the ancestor
RECURSIVE backward_chain_iterator(_, _, _)
backward_chain_iterator(from_descendant, to_ancestor, inclusive) ==
    IF from_descendant = to_ancestor
    THEN IF inclusive THEN <<to_ancestor>> ELSE <<>>
    ELSE <<from_descendant>> \o
             backward_chain_iterator(compact_data[from_descendant].selected_parent,
                                     to_ancestor, inclusive)

\* Vec::reverse
reverse(v) == [i \in 1..Len(v) |-> v[Len(v) + 1 - i]]

\* a mutant of calculate_chain_path: added is left in the order of the walk
calculate_chain_path_unreversed(f, t) ==
    LET chain == default_backward_chain_iterator(f)
        hits == {i \in 1..Len(chain) : is_chain_ancestor_of(chain[i], t)}
        stop == IF hits = {} THEN Len(chain) + 1
                ELSE CHOOSE i \in hits : \A j \in hits : i <= j
        common_ancestor == IF hits = {} THEN f ELSE chain[stop]
    IN  IF ~is_chain_ancestor_of(common_ancestor, t) THEN [status |-> "panic"]
        ELSE [status |-> "ok",
              added |-> backward_chain_iterator(t, common_ancestor, FALSE),
              removed |-> SubSeq(chain, 1, stop - 1)]

\* a mutant of calculate_chain_path: the common ancestor goes to removed
calculate_chain_path_inclusive(f, t) ==
    LET chain == default_backward_chain_iterator(f)
        hits == {i \in 1..Len(chain) : is_chain_ancestor_of(chain[i], t)}
        stop == IF hits = {} THEN Len(chain) + 1
                ELSE CHOOSE i \in hits : \A j \in hits : i <= j
        common_ancestor == IF hits = {} THEN f ELSE chain[stop]
    IN  IF ~is_chain_ancestor_of(common_ancestor, t) THEN [status |-> "panic"]
        ELSE [status |-> "ok",
              added |-> reverse(backward_chain_iterator(t, common_ancestor, FALSE)),
              removed |-> SubSeq(chain, 1, IF hits = {} THEN stop - 1 ELSE stop)]

\* DagTraversalManager::calculate_chain_path(from, to): the walk stops at the
\* first block of the chain of from that is a chain ancestor of to; the
\* backward iterator of line 55 ends only at its to_ancestor, so it aborts
\* when that block is not on the chain of to
calculate_chain_path(f, t) ==
    LET chain == default_backward_chain_iterator(f)
        hits == {i \in 1..Len(chain) : is_chain_ancestor_of(chain[i], t)}
        stop == IF hits = {} THEN Len(chain) + 1
                ELSE CHOOSE i \in hits : \A j \in hits : i <= j
        common_ancestor == IF hits = {} THEN f ELSE chain[stop]
    IN  IF ~is_chain_ancestor_of(common_ancestor, t) THEN [status |-> "panic"]
        ELSE [status |-> "ok",
              added |-> reverse(backward_chain_iterator(t, common_ancestor, FALSE)),
              removed |-> SubSeq(chain, 1, stop - 1)]

\* one call of calculate_chain_path(from, to)
CalculateChainPath ==
    /\ chain_path_out = ChainNotCalled
    /\ lowest_out = LowestNotCalled
    /\ \E f \in ChainBlocks, t \in ChainBlocks :
         /\ from' = f
         /\ to' = t
         /\ chain_path_out' = calculate_chain_path(f, t)
    /\ UNCHANGED <<compact_data, high, blue_score, lowest_out, heapVars, workVars,
                   diffVars, daaVars, anticoneVars, estimateVars,
                   flowVars>>

\* a mutant of below_target: a selected parent at the target stops the walk
below_target_inclusive(score, target) == score <= target

\* line 110: the blue score of the selected parent is below the target
below_target(score, target) == score < target

\* a mutant of at_genesis: the walk does not stop at genesis
at_genesis_never(current) == FALSE

\* line 107: the walk has reached genesis
at_genesis(current) == current = Genesis

\* The while loop of lowest_chain_block_above_or_equal_to_blue_score on the
\* state st = [current, walked, lookups]; walked lists the blocks that were
\* current, lookups the hashes handed to get_compact_data.
RECURSIVE lowest_loop(_, _)
lowest_loop(st, target) ==
    IF at_genesis(st.current) THEN [status |-> "ok", block |-> st.current, st |-> st]
    ELSE IF st.current = Origin THEN [status |-> "panic", st |-> st]   \* line 108
    ELSE
    LET selected_parent == compact_data[st.current].selected_parent
        looked == [st EXCEPT !.lookups = Append(@, selected_parent)]
    IN  IF selected_parent \notin DOMAIN compact_data
        THEN [status |-> "panic", st |-> looked]                       \* line 109
        ELSE IF below_target(compact_data[selected_parent].blue_score, target)
        THEN [status |-> "ok", block |-> st.current, st |-> looked]
        ELSE lowest_loop([looked EXCEPT !.current = selected_parent,
                                        !.walked = Append(@, selected_parent)],
                         target)

\* DagTraversalManager::lowest_chain_block_above_or_equal_to_blue_score
lowest_chain_block_above_or_equal_to_blue_score(h, target) ==
    LET st == [current |-> h, walked |-> <<h>>, lookups |-> <<h>>]
    IN  IF h \notin DOMAIN compact_data THEN [status |-> "panic", st |-> st]
        ELSE IF ~(compact_data[h].blue_score >= target)
        THEN [status |-> "panic", st |-> st]                            \* line 102
        ELSE lowest_loop(st, target)

\* one call of lowest_chain_block_above_or_equal_to_blue_score(high,
\* blue_score), for every target up to one above the blue score of high
LowestChainBlock ==
    /\ chain_path_out = ChainNotCalled
    /\ lowest_out = LowestNotCalled
    /\ \E h \in ChainBlocks :
       \E target \in 0..(compact_data[h].blue_score + 1) :
         /\ high' = h
         /\ blue_score' = target
         /\ lowest_out' = lowest_chain_block_above_or_equal_to_blue_score(h, target)
    /\ UNCHANGED <<compact_data, from, to, chain_path_out, heapVars, workVars,
                   diffVars, daaVars, anticoneVars, estimateVars,
                   flowVars>>

----------------------------------------------------------------------------
(* DifficultyManager::estimate_network_hashes_per_second *)

\* const MIN_WINDOW_SIZE
MIN_WINDOW_SIZE == 1000

\* milliseconds in a second, the divisor of line 113
MillisPerSecond == 1000

\* BlueWorkType::as_u64: the lowest of the three words of the blue work type
WordBits == BlueWorkBits \div 3
as_u64(v) == v % 2 ^ WordBits

\* the minimum and the maximum of a non-empty sequence of numbers
minmax(values) ==
    LET all == {values[i] : i \in 1..Len(values)}
    IN  [min |-> CHOOSE x \in all : \A y \in all : x <= y,
         max |-> CHOOSE x \in all : \A y \in all : x >= y]

\* a mutant of empty_timestamp_range: no range is taken for empty
empty_timestamp_range_never(ts) == FALSE

\* line 110: the minimum and the maximum timestamp are the same
empty_timestamp_range(ts) == ts.min = ts.max

\* a mutant of estimate_network_hashes_per_second: the guards on the
\* timestamps come in the other order
estimate_duration_first(store, w) ==
    IF Len(w) < MIN_WINDOW_SIZE
    THEN [status |-> "err", error |-> "UnderMinWindowSizeAllowed",
          window_size |-> Len(w), min_window_size |-> MIN_WINDOW_SIZE]
    ELSE IF w = <<>> THEN [status |-> "ok", value |-> 0]
    ELSE
    LET difficulty_blocks == get_difficulty_blocks(store, w)
        ts == minmax([i \in 1..Len(w) |-> difficulty_blocks[i].timestamp])
        window_duration == (ts.max - ts.min) \div MillisPerSecond
        bw == minmax([i \in 1..Len(w) |-> difficulty_blocks[i].sortable_block.blue_work])
    IN  IF window_duration = 0 THEN [status |-> "ok", value |-> 0]
        ELSE IF ts.min = ts.max THEN [status |-> "err", error |-> "EmptyTimestampRange"]
        ELSE [status |-> "ok", value |-> as_u64((bw.max - bw.min) \div window_duration)]

\* a mutant of estimate_network_hashes_per_second: the empty window is
\* answered before the size check
estimate_empty_first(store, w) ==
    IF w = <<>> THEN [status |-> "ok", value |-> 0]
    ELSE IF Len(w) < MIN_WINDOW_SIZE
    THEN [status |-> "err", error |-> "UnderMinWindowSizeAllowed",
          window_size |-> Len(w), min_window_size |-> MIN_WINDOW_SIZE]
    ELSE
    LET difficulty_blocks == get_difficulty_blocks(store, w)
        ts == minmax([i \in 1..Len(w) |-> difficulty_blocks[i].timestamp])
        window_duration == (ts.max - ts.min) \div MillisPerSecond
        bw == minmax([i \in 1..Len(w) |-> difficulty_blocks[i].sortable_block.blue_work])
    IN  IF ts.min = ts.max THEN [status |-> "err", error |-> "EmptyTimestampRange"]
        ELSE IF window_duration = 0 THEN [status |-> "ok", value |-> 0]
        ELSE [status |-> "ok", value |-> as_u64((bw.max - bw.min) \div window_duration)]

\* DifficultyManager::estimate_network_hashes_per_second(window)
estimate_network_hashes_per_second(store, w) ==
    IF Len(w) < MIN_WINDOW_SIZE
    THEN [status |-> "err", error |-> "UnderMinWindowSizeAllowed",
          window_size |-> Len(w), min_window_size |-> MIN_WINDOW_SIZE]
    ELSE IF w = <<>> THEN [status |-> "ok", value |-> 0]
    ELSE
    LET difficulty_blocks == get_difficulty_blocks(store, w)
        ts == minmax([i \in 1..Len(w) |-> difficulty_blocks[i].timestamp])
        window_duration == (ts.max - ts.min) \div MillisPerSecond
        bw == minmax([i \in 1..Len(w) |-> difficulty_blocks[i].sortable_block.blue_work])
    IN  IF empty_timestamp_range(ts)
        THEN [status |-> "err", error |-> "EmptyTimestampRange"]
        ELSE IF window_duration = 0 THEN [status |-> "ok", value |-> 0]
        ELSE [status |-> "ok", value |-> as_u64((bw.max - bw.min) \div window_duration)]

\* the lengths of the windows: empty, short, and around the minimum size
EstimateWindowLengths ==
    {0, 1, 2, MIN_WINDOW_SIZE - 1, MIN_WINDOW_SIZE, MIN_WINDOW_SIZE + 1}

\* the timestamps of the first member, of the last member and of the others
FirstTimestamps == {0, 500, 1000}
LastTimestamps == {1000, 1999, 2000, 3500}
FillerTimestamp == 1000

\* the blue works of the first member, of the second member and of the others
FirstBlueWorks == {0, 5}
SecondBlueWorks == {5, 9, 105}
FillerBlueWork == 5

\* A window of n members with the hashes 1..n, all present in the header
\* store: the first and the last member carry their own timestamps, the
\* first and the second their own blue works.
EstimateInit ==
    \E n \in EstimateWindowLengths, first_ts \in FirstTimestamps,
       last_ts \in LastTimestamps, first_bw \in FirstBlueWorks,
       second_bw \in SecondBlueWorks :
      /\ headers_store =
            [i \in 1..n |->
               [timestamp |-> IF i = 1 THEN first_ts
                              ELSE IF i = n THEN last_ts ELSE FillerTimestamp,
                bits |-> compact_target_bits(DIFFICULTY_MAX)]]
      /\ window =
            [i \in 1..n |->
               [hash |-> i,
                blue_work |-> IF i = 1 THEN first_bw
                              ELSE IF i = 2 THEN second_bw ELSE FillerBlueWork]]
      /\ genesis_bits = 0
      /\ difficulty_adjustment_window_size = 0
      /\ target_time_per_block = 1
      /\ bits_out = NotCalled
      /\ hashes_out = EstimateNotCalled

\* one call of estimate_network_hashes_per_second(window)
EstimateNetworkHashesPerSecond ==
    /\ hashes_out = EstimateNotCalled
    /\ hashes_out' = estimate_network_hashes_per_second(headers_store, window)
    /\ UNCHANGED <<heapVars, workVars, diffVars, daaVars, anticoneVars, chainVars,
                   flowVars>>

\* The steady-state scenario: a chain of ten blocks that all carry the same
\* bits, the block of minimum timestamp and the block of maximum timestamp
\* 9000 ms or 10000 ms apart, the others in between, under the mainnet target
\* time of 1000 ms per block.
SteadyInit ==
    \E b \in CompactBits, span \in {9000, 10000} :
    \E imin \in {1, 10} : \E imax \in {1, 5, 10} \ {imin} :
        /\ headers_store =
              [i \in 1..10 |->
                 [timestamp |-> IF i = imin THEN 0
                                ELSE IF i = imax THEN span
                                ELSE 1000 * ((i % 8) + 1),
                  bits |-> b]]
        /\ window = [i \in 1..10 |-> [hash |-> i, blue_work |-> i % 2]]
        /\ genesis_bits \in GenesisBitsChoices
        /\ difficulty_adjustment_window_size \in {0, 5, 10}
        /\ target_time_per_block = 1000
        /\ bits_out = NotCalled

----------------------------------------------------------------------------
(* CollectorFrom (notify/src/collector.rs)                                 *)
(*                                                                         *)
(* start and the first half of stop are single calls; the collecting task  *)
(* and the caller awaiting the response run concurrently with them.  Each  *)
(* trigger of the DuplexTrigger fires once and stays fired; a listener is  *)
(* ready from then on.                                                     *)

IncomingNotification == {"A", "B"}

\* From<IncomingNotification> for OutgoingNotification
Into(notification) == [outgoing |-> notification]

TaskIds == 1..MaxSpawns

NotSpawned == [pc |-> "none", item |-> "none"]

Running(t) == tasks[t].pc \in {"select", "notify"}

Spawned == Cardinality({t \in TaskIds : tasks[t] # NotSpawned})

\* CollectorFrom::new, and no call made yet
CollectorIdle ==
    /\ is_started = FALSE
    /\ request = FALSE
    /\ response = FALSE
    /\ recv_channel = <<>>
    /\ sent = <<>>
    /\ notified = <<>>
    /\ tasks = [t \in TaskIds |-> NotSpawned]
    /\ stop_pc = "idle"
    /\ stop_ret = "none"
    /\ stop_tasks = {}

\* Collector::start: spawn_collecting_task up to the spawn
Start ==
    /\ Spawned < MaxSpawns
    /\ IF is_started = FALSE
       THEN /\ is_started' = TRUE
            /\ tasks' = [tasks EXCEPT ![Spawned + 1] = [pc |-> "select", item |-> "none"]]
       ELSE UNCHANGED <<is_started, tasks>>
    /\ UNCHANGED <<request, response, recv_channel, sent, notified, stop_pc, stop_ret,
                   stop_tasks>>
    /\ UNCHANGED <<heapVars, workVars, diffVars, daaVars, anticoneVars, chainVars,
                   estimateVars, broadcastVars>>

\* Collector::stop: stop_collecting_task up to the await of the response
StopRequest ==
    /\ stop_pc = "idle"
    /\ IF is_started = TRUE
       THEN /\ is_started' = FALSE
            /\ request' = TRUE
            /\ stop_pc' = "awaiting"
            /\ stop_ret' = "none"
            /\ stop_tasks' = {t \in TaskIds : Running(t)}
       ELSE /\ stop_ret' = "AlreadyStoppedError"
            /\ UNCHANGED <<is_started, request, stop_pc, stop_tasks>>
    /\ UNCHANGED <<response, recv_channel, sent, notified, tasks>>
    /\ UNCHANGED <<heapVars, workVars, diffVars, daaVars, anticoneVars, chainVars,
                   estimateVars, broadcastVars>>

\* stop_collecting_task: the response listener is ready and stop returns Ok
StopReturn ==
    /\ stop_pc = "awaiting"
    /\ response = TRUE
    /\ stop_pc' = "idle"
    /\ stop_ret' = "Ok"
    /\ stop_tasks' = {t \in stop_tasks : Running(t)}
    /\ UNCHANGED <<is_started, request, response, recv_channel, sent, notified, tasks>>
    /\ UNCHANGED <<heapVars, workVars, diffVars, daaVars, anticoneVars, chainVars,
                   estimateVars, broadcastVars>>

\* incoming.send(item)
Send(notification) ==
    /\ Len(sent) < MaxSends
    /\ sent' = Append(sent, notification)
    /\ recv_channel' = Append(recv_channel, notification)
    /\ UNCHANGED <<is_started, request, response, notified, tasks, stop_pc, stop_ret,
                   stop_tasks>>
    /\ UNCHANGED <<heapVars, workVars, diffVars, daaVars, anticoneVars, chainVars,
                   estimateVars, broadcastVars>>

\* the collecting task: select! takes the shutdown branch, the loop breaks
\* and the response is triggered
TaskShutdown(t) ==
    /\ tasks[t].pc = "select"
    /\ request = TRUE
    /\ tasks' = [tasks EXCEPT ![t] = [pc |-> "ended", item |-> "none"]]
    /\ response' = TRUE
    /\ UNCHANGED <<is_started, request, recv_channel, sent, notified, stop_pc,
                   stop_ret, stop_tasks>>
    /\ UNCHANGED <<heapVars, workVars, diffVars, daaVars, anticoneVars, chainVars,
                   estimateVars, broadcastVars>>

\* the collecting task: select! takes the notification branch
TaskReceive(t) ==
    /\ tasks[t].pc = "select"
    /\ recv_channel # <<>>
    /\ tasks' = [tasks EXCEPT ![t] = [pc |-> "notify", item |-> Head(recv_channel)]]
    /\ recv_channel' = Tail(recv_channel)
    /\ UNCHANGED <<is_started, request, response, sent, notified, stop_pc, stop_ret,
                   stop_tasks>>
    /\ UNCHANGED <<heapVars, workVars, diffVars, daaVars, anticoneVars, chainVars,
                   estimateVars, broadcastVars>>

\* the collecting task: notifier.notify(notification.into())
TaskNotify(t) ==
    /\ tasks[t].pc = "notify"
    /\ notified' = Append(notified, Into(tasks[t].item))
    /\ tasks' = [tasks EXCEPT ![t] = [pc |-> "select", item |-> "none"]]
    /\ UNCHANGED <<is_started, request, response, recv_channel, sent, stop_pc,
                   stop_ret, stop_tasks>>
    /\ UNCHANGED <<heapVars, workVars, diffVars, daaVars, anticoneVars, chainVars,
                   estimateVars, broadcastVars>>

SendAny == \E notification \in IncomingNotification : Send(notification)

CollectingTask ==
    \E t \in TaskIds : TaskShutdown(t) \/ TaskReceive(t) \/ TaskNotify(t)

----------------------------------------------------------------------------
(* TransactionsSpread (protocol/flows/src/flowcontext/transactions.rs)     *)
(*                                                                         *)
(* The clock counts ticks of 250 ms.  The queue keeps one entry per id.    *)

BROADCAST_INTERVAL == 2

MAX_INV_PER_TX_INV_MSG == 3

TransactionIds == 1..NumTxIds

\* the Vec<TransactionId> arguments of broadcast
Chunks ==
    {<<>>} \cup {<<a>> : a \in TransactionIds}
           \cup {<<a, b>> : a \in TransactionIds, b \in TransactionIds}

RECURSIVE enqueue_chunk(_, _)
enqueue_chunk(queue, ids) ==
    IF ids = <<>> THEN queue
    ELSE IF \E i \in 1..Len(queue) : queue[i] = Head(ids)
         THEN enqueue_chunk(queue, Tail(ids))
         ELSE enqueue_chunk(Append(queue, Head(ids)), Tail(ids))

\* TransactionsSpread::new, and no call made yet
BroadcastIdle ==
    /\ transaction_ids = <<>>
    /\ last_broadcast_time = 0
    /\ clock = 0
    /\ broadcast_pc = "idle"
    /\ broadcast_ret = "none"

\* time passes
Tick ==
    /\ clock < MaxTime
    /\ clock' = clock + 1
    /\ UNCHANGED <<transaction_ids, last_broadcast_time, broadcast_pc, broadcast_ret>>
    /\ UNCHANGED <<heapVars, workVars, diffVars, daaVars, anticoneVars, chainVars,
                   estimateVars, collectorVars>>

\* broadcast, up to the while loop
Broadcast(ids) ==
    /\ broadcast_pc = "idle"
    /\ LET queue == enqueue_chunk(transaction_ids, ids)
           now == clock
       IN  /\ transaction_ids' = queue
           /\ IF /\ now - last_broadcast_time < BROADCAST_INTERVAL
                 /\ Len(queue) < MAX_INV_PER_TX_INV_MSG
              THEN /\ broadcast_ret' = "Ok"
                   /\ broadcast_pc' = "idle"
              ELSE /\ broadcast_ret' = "none"
                   /\ broadcast_pc' = "while"
    /\ UNCHANGED <<last_broadcast_time, clock>>
    /\ UNCHANGED <<heapVars, workVars, diffVars, daaVars, anticoneVars, chainVars,
                   estimateVars, collectorVars>>

\* broadcast: the test of the while loop and, once the queue is empty, the
\* rest of the function
WhileTest ==
    /\ broadcast_pc = "while"
    /\ IF transaction_ids # <<>>
       THEN /\ broadcast_pc' = "body"
            /\ UNCHANGED <<last_broadcast_time, broadcast_ret>>
       ELSE /\ last_broadcast_time' = clock
            /\ broadcast_ret' = "Ok"
            /\ broadcast_pc' = "idle"
    /\ UNCHANGED <<transaction_ids, clock>>
    /\ UNCHANGED <<heapVars, workVars, diffVars, daaVars, anticoneVars, chainVars,
                   estimateVars, collectorVars>>

\* broadcast: the body of the while loop, which holds no statement
WhileBody ==
    /\ broadcast_pc = "body"
    /\ broadcast_pc' = "while"
    /\ UNCHANGED <<transaction_ids, last_broadcast_time, clock, broadcast_ret>>
    /\ UNCHANGED <<heapVars, workVars, diffVars, daaVars, anticoneVars, chainVars,
                   estimateVars, collectorVars>>

BroadcastAny == \E ids \in Chunks : Broadcast(ids)

FlowIdle == CollectorIdle /\ BroadcastIdle

----------------------------------------------------------------------------
(* Specifications, one per component *)

InitHeap == HeapInit /\ WorkIdle /\ DiffIdle /\ DaaIdle /\ AnticoneIdle /\ ChainIdle
    /\ EstimateIdle /\ FlowIdle

SpecHeap == InitHeap /\ [][TryPush]_vars

InitWork == WorkInit /\ HeapIdle /\ DiffIdle /\ DaaIdle /\ AnticoneIdle /\ ChainIdle
    /\ EstimateIdle /\ FlowIdle

SpecWork == InitWork /\ [][CalcWork]_vars

InitSteady == HeapIdle /\ WorkIdle /\ DaaIdle /\ AnticoneIdle /\ SteadyInit /\ ChainIdle
    /\ EstimateIdle /\ FlowIdle

SpecSteady == InitSteady /\ [][CalculateDifficultyBits]_vars

InitDiff == HeapIdle /\ WorkIdle /\ DaaIdle /\ AnticoneIdle /\ DiffInit /\ ChainIdle
    /\ EstimateIdle /\ FlowIdle

SpecDiff == InitDiff /\ [][ExtendWindow \/ CalculateDifficultyBits]_vars

InitDaa == HeapIdle /\ WorkIdle /\ AnticoneIdle /\ DaaInit /\ ChainIdle
    /\ EstimateIdle /\ FlowIdle

SpecDaa == InitDaa /\ [][CalcDaaScore]_vars

InitAnticone == HeapIdle /\ WorkIdle /\ DiffIdle /\ DaaIdle /\ AnticoneInit /\ ChainIdle
    /\ EstimateIdle /\ FlowIdle

SpecAnticone == InitAnticone /\ [][Anticone]_vars

InitChain ==
    /\ HeapIdle /\ WorkIdle /\ DiffIdle /\ DaaIdle /\ AnticoneIdle /\ EstimateIdle
    /\ FlowIdle /\ ChainInit

InitEstimate ==
    /\ HeapIdle /\ WorkIdle /\ DaaIdle /\ AnticoneIdle /\ ChainIdle
    /\ FlowIdle /\ EstimateInit

SpecEstimate == InitEstimate /\ [][EstimateNetworkHashesPerSecond]_vars

SpecChain == InitChain /\ [][CalculateChainPath \/ LowestChainBlock]_vars

InitCollector ==
    /\ HeapIdle /\ WorkIdle /\ DiffIdle /\ DaaIdle /\ AnticoneIdle /\ ChainIdle
    /\ EstimateIdle /\ FlowIdle

SpecCollector ==
    InitCollector /\ [][Start \/ StopRequest \/ StopReturn \/ SendAny \/ CollectingTask]_vars

InitBroadcast ==
    /\ HeapIdle /\ WorkIdle /\ DiffIdle /\ DaaIdle /\ AnticoneIdle /\ ChainIdle
    /\ EstimateIdle /\ FlowIdle

\* A call of broadcast that has started keeps running: the loop holds no
\* await, so nothing but the loop itself can keep it from its next step.
SpecBroadcast ==
    /\ InitBroadcast
    /\ [][Tick \/ BroadcastAny \/ WhileTest \/ WhileBody]_vars
    /\ WF_vars(WhileTest)
    /\ WF_vars(WhileBody)

----------------------------------------------------------------------------
(* Selection of the k highest / lowest blocks of a bag *)

BagMax(bag) ==
    CHOOSE m \in BagToSet(bag) : \A o \in BagToSet(bag) : ~SortableLess(m, o)

BagMin(bag) ==
    CHOOSE m \in BagToSet(bag) : \A o \in BagToSet(bag) : ~SortableLess(o, m)

RECURSIVE HighestK(_, _)
HighestK(bag, k) ==
    IF k = 0 \/ BagToSet(bag) = {} THEN EmptyBag
    ELSE LET m == BagMax(bag) IN
         SetToBag({m}) (+) HighestK(bag (-) SetToBag({m}), k - 1)

RECURSIVE LowestK(_, _)
LowestK(bag, k) ==
    IF k = 0 \/ BagToSet(bag) = {} THEN EmptyBag
    ELSE LET m == BagMin(bag) IN
         SetToBag({m}) (+) LowestK(bag (-) SetToBag({m}), k - 1)

\* C1 (as stated): with size bound K >= 1 the heap holds exactly the K lowest
\* blocks, in SortableBlock order, of all blocks pushed so far.
C1_HoldsLowest ==
    size_bound >= 1 => binary_heap = LowestK(pushed, size_bound)

\* C1 (amended): with size bound K >= 1 the heap holds exactly the K highest
\* blocks, in SortableBlock order, of all blocks pushed so far (all of them if
\* fewer than K were pushed).
C1_HoldsHighest ==
    size_bound >= 1 => binary_heap = HighestK(pushed, size_bound)

\* C1 witness: more blocks than the bound were pushed, one was rejected or
\* evicted, and the heap is full.
C1_Witness ==
    /\ size_bound >= 1
    /\ BagCardinality(pushed) > size_bound + 1
    /\ BagCardinality(binary_heap) = size_bound
    /\ binary_heap # pushed
    /\ ret = "false"

\* the last try_push found a non-empty heap at its size bound
AtBoundPush ==
    /\ ret # "none"
    /\ BagToSet(pre_heap) # {}
    /\ reached_size_bound(pre_heap, size_bound)

\* C2 (as stated): at the bound, a candidate that is not smaller than the
\* largest block held is rejected (false, membership unchanged); every other
\* candidate evicts that largest block and is admitted.
C2_ComparesWithLargest ==
    AtBoundPush =>
      LET largest == BagMax(pre_heap) IN
        IF ~SortableLess(candidate, largest)
        THEN ret = "false" /\ binary_heap = pre_heap
        ELSE /\ ret = "true"
             /\ binary_heap = (pre_heap (-) SetToBag({largest})) (+) SetToBag({candidate})

\* C2 (amended): at the bound (a non-empty heap), a candidate that is strictly
\* smaller than the smallest block held is rejected (false, membership
\* unchanged); every other candidate evicts that smallest block and is
\* admitted (true).
C2_ComparesWithSmallest ==
    AtBoundPush =>
      LET smallest == BagMin(pre_heap) IN
        IF SortableLess(candidate, smallest)
        THEN ret = "false" /\ binary_heap = pre_heap
        ELSE /\ ret = "true"
             /\ binary_heap = (pre_heap (-) SetToBag({smallest})) (+) SetToBag({candidate})

\* C2 witness: a heap of two blocks at its bound admitted a candidate and
\* evicted its smallest block.
C2_Witness ==
    /\ AtBoundPush
    /\ size_bound = 2
    /\ ret = "true"
    /\ binary_heap # pre_heap
    /\ BagCardinality(binary_heap) = 2

----------------------------------------------------------------------------
(* Claims on calculate_difficulty_bits *)

DifficultyCalled == bits_out # NotCalled

\* the members of the window with their header data, as a set
WindowMembers == 
    LET blocks == get_difficulty_blocks(headers_store, window)
    IN  {blocks[i] : i \in 1..Len(blocks)}

\* C3: for a window with fewer members than difficulty_adjustment_window_size
\* calculate_difficulty_bits returns the genesis bits, whatever the members
\* carry.
C3_GenesisBitsBelowWindowSize ==
    (DifficultyCalled /\ Len(window) < difficulty_adjustment_window_size)
        => bits_out = genesis_bits

\* C3 witness: the genesis bits were returned for a window of two members
\* whose content alone gives other bits.
C3_Witness ==
    /\ DifficultyCalled
    /\ Len(window) = 2
    /\ Len(window) < difficulty_adjustment_window_size
    /\ bits_out = genesis_bits
    /\ new_difficulty_bits(get_difficulty_blocks(headers_store, window),
                           target_time_per_block) \notin {genesis_bits, Panic}

RECURSIVE SumOfTargets(_)
SumOfTargets(S) ==
    IF S = {} THEN 0
    ELSE LET m == CHOOSE x \in S : TRUE
         IN  from_compact_target_bits(m.bits) + SumOfTargets(S \ {m})

MinTimestamp ==
    LET stamps == {m.timestamp : m \in WindowMembers}
    IN  CHOOSE t \in stamps : \A o \in stamps : t <= o

MaxTimestamp ==
    LET stamps == {m.timestamp : m \in WindowMembers}
    IN  CHOOSE t \in stamps : \A o \in stamps : t >= o

\* the member of minimum timestamp that is left out of the average
EarliestMember ==
    LET members == WindowMembers
    IN  CHOOSE m \in members : \A o \in members \ {m} : DifficultyLess(m, o)

\* floor(floor(A * E / T) / (N-1)) of claim C4
ExpectedNewTarget ==
    LET N == Len(window)
        A == SumOfTargets(WindowMembers \ {EarliestMember}) \div (N - 1)
        E == Max(MaxTimestamp - MinTimestamp, 1)
    IN  ((A * E) \div target_time_per_block) \div (N - 1)

FullWindowCalled ==
    /\ DifficultyCalled
    /\ Len(window) >= difficulty_adjustment_window_size
    /\ Len(window) >= 2

\* C4 (as stated): for N >= window size and N >= 2 the call returns the
\* compact encoding of floor(floor(A * E / T) / (N-1)).
C4_ReturnsCompactOfFormula ==
    FullWindowCalled => bits_out = compact_target_bits(ExpectedNewTarget)

\* C4 (amended): for N >= window size and N >= 2 the call returns the compact
\* encoding of floor(floor(A * E / T) / (N-1)) when that value fits the
\* target type, and aborts when it does not.
C4_ReturnsCompactOfFormulaOrAborts ==
    FullWindowCalled =>
        LET X == ExpectedNewTarget
        IN  bits_out = IF X < Uint256Modulus THEN compact_target_bits(X) ELSE Panic

\* C4 witness: a full window of three members returned bits that dividing by
\* the target time before multiplying would not have given.
C4_Witness ==
    /\ FullWindowCalled
    /\ Len(window) = 3
    /\ bits_out # Panic
    /\ bits_out # new_difficulty_bits_divide_first(
                      get_difficulty_blocks(headers_store, window), target_time_per_block)

BitsOf(store, w) ==
    calculate_difficulty_bits(store, genesis_bits, difficulty_adjustment_window_size,
                              target_time_per_block, w)

\* the members of a window in ascending order of their hashes
RECURSIVE SortedByHash(_)
SortedByHash(w) ==
    IF w = <<>> THEN <<>>
    ELSE LET i == CHOOSE k \in 1..Len(w) : \A j \in 1..Len(w) : w[k].hash <= w[j].hash
         IN  <<w[i]>> \o SortedByHash(SubSeq(w, 1, i - 1) \o SubSeq(w, i + 1, Len(w)))

\* the header data of a sequence of blocks in ascending (timestamp, bits) order
RECURSIVE SortedHeaders(_)
SortedHeaders(blocks) ==
    IF blocks = <<>> THEN <<>>
    ELSE LET i == CHOOSE k \in 1..Len(blocks) : \A j \in 1..Len(blocks) :
                      \/ blocks[k].timestamp < blocks[j].timestamp
                      \/ /\ blocks[k].timestamp = blocks[j].timestamp
                         /\ blocks[k].bits <= blocks[j].bits
         IN  <<[timestamp |-> blocks[i].timestamp, bits |-> blocks[i].bits]>>
                 \o SortedHeaders(SubSeq(blocks, 1, i - 1) \o SubSeq(blocks, i + 1, Len(blocks)))

\* The canonical window of a multiset of (timestamp, bits) pairs: the pairs in
\* ascending order under the hashes 1, 2, ... and blue work 0.  Two windows
\* with the same multiset of pairs have the same canonical window, so a
\* result that agrees with the canonical window's is the same for both.
CanonicalStore == SortedHeaders(get_difficulty_blocks(headers_store, window))
CanonicalWindow == [i \in 1..Len(window) |-> [hash |-> i, blue_work |-> 0]]

\* C6 (as stated): the result depends only on the multiset of (timestamp,
\* bits) pairs of the members, whatever the iteration order, the hashes and the
\* blue works.
C6_OnlyTimestampAndBitsMatter ==
    DifficultyCalled => bits_out = BitsOf(CanonicalStore, CanonicalWindow)

\* the members that share the minimum timestamp carry the same bits
EarliestAgreeOnBits ==
    LET min_ts == MinTimestamp
        earliest == {m \in WindowMembers : m.timestamp = min_ts}
    IN  \A m, o \in earliest : m.bits = o.bits

\* C6 (amended): the result does not depend on the iteration order of the
\* members (it is the result for the same members in ascending hash order);
\* it depends only on the multiset of their (timestamp, bits) pairs when the
\* members of minimum timestamp all carry the same bits.
C6_OrderInvariant ==
    DifficultyCalled =>
        /\ bits_out = BitsOf(headers_store, SortedByHash(window))
        /\ (window # <<>> /\ EarliestAgreeOnBits) =>
               bits_out = BitsOf(CanonicalStore, CanonicalWindow)

\* C6 witness: a full window of three members, two of them of minimum
\* timestamp with different bits, returned bits.
C6_Witness ==
    /\ FullWindowCalled
    /\ Len(window) = 3
    /\ bits_out # Panic
    /\ ~EarliestAgreeOnBits
    /\ MinTimestamp < MaxTimestamp

----------------------------------------------------------------------------
(* The steady-state scenario of calculate_difficulty_bits *)

\* ten members that all carry the same bits, under a target time of 1000 ms
\* and a window size of at most ten
SteadyCalled ==
    /\ DifficultyCalled
    /\ Len(window) = 10
    /\ \A m \in WindowMembers : m.bits = headers_store[1].bits
    /\ target_time_per_block = 1000
    /\ difficulty_adjustment_window_size <= 10

CommonTarget == from_compact_target_bits(headers_store[1].bits)

\* C5 (as stated): ten members of the same bits whose extreme timestamps are
\* 10000 ms apart give the compact bits of the common target.
C5_SteadyAt10000 ==
    (SteadyCalled /\ MaxTimestamp - MinTimestamp = 10000)
        => bits_out = compact_target_bits(CommonTarget)

\* C5 (amended): ten members of the same bits whose extreme timestamps are
\* 9000 ms apart (nine block intervals of 1000 ms) give the compact bits of the
\* common target t; 10000 ms apart they give the compact bits of
\* floor(10 * t / 9), or the call aborts when that exceeds the target type.
C5_SteadyAt9000 ==
    /\ (SteadyCalled /\ MaxTimestamp - MinTimestamp = 9000)
           => bits_out = compact_target_bits(CommonTarget)
    /\ (SteadyCalled /\ MaxTimestamp - MinTimestamp = 10000)
           => bits_out = IF (10 * CommonTarget) \div 9 < Uint256Modulus
                         THEN compact_target_bits((10 * CommonTarget) \div 9)
                         ELSE Panic

\* C5 witness: a full window of ten members 9000 ms apart reproduced bits
\* that a span of 10000 ms would have changed.
C5_Witness ==
    /\ SteadyCalled
    /\ difficulty_adjustment_window_size = 10
    /\ MaxTimestamp - MinTimestamp = 9000
    /\ bits_out = headers_store[1].bits
    /\ compact_target_bits((10 * CommonTarget) \div 9) # bits_out

----------------------------------------------------------------------------
(* Claims on calc_daa_score_and_non_daa_mergeset_blocks *)

DaaCalled == daa_out # DaaNotCalled

\* the sequence of claim C7: the mergeset without the selected parent in
\* ascending order, followed by the selected parent
ClassifiedSequence ==
    LET sp == ghostdag_data.selected_parent
        others == (ghostdag_data.mergeset_blues \cup ghostdag_data.mergeset_reds) \ {sp}
    IN  AscendingBlocks(ghostdag_store, others)
            \o <<[hash |-> sp, blue_work |-> ghostdag_store[sp]]>>

\* the window member that is lowest in SortableBlock order
WindowMinimum ==
    CHOOSE m \in {window[i] : i \in 1..Len(window)} :
        \A i \in 1..Len(window) : ~SortableLess(window[i], m)

\* the positions of the longest prefix of blocks strictly below the minimum
PrefixBelowMinimum ==
    {i \in 1..Len(ClassifiedSequence) :
        \A j \in 1..i : SortableLess(ClassifiedSequence[j], WindowMinimum)}

DaaCase ==
    /\ DaaCalled
    /\ window # <<>>
    /\ ghostdag_data.selected_parent \in DOMAIN ghostdag_store

\* C7: the non-DAA set is the longest prefix of (ascending mergeset without
\* the selected parent, then the selected parent) whose elements are all
\* strictly below the lowest window member; the DAA score is that of the
\* selected parent plus the mergeset size minus the size of that set; no
\* element after the first one not below the minimum is in the set.
C7_NonDaaIsPrefixBelowWindowMinimum ==
    DaaCase =>
        /\ daa_out.mergeset_non_daa = {ClassifiedSequence[i].hash : i \in PrefixBelowMinimum}
        /\ daa_out.daa_score =
              headers_store[ghostdag_data.selected_parent].daa_score
                + Len(ClassifiedSequence) - Cardinality(PrefixBelowMinimum)
        /\ \A i, j \in 1..Len(ClassifiedSequence) :
              (i < j /\ ~SortableLess(ClassifiedSequence[i], WindowMinimum))
                  => ClassifiedSequence[j].hash \notin daa_out.mergeset_non_daa

\* C7 witness: a mergeset block below the window minimum is non-DAA, the next
\* one is not below it, and the selected parent, below the minimum, is left
\* out because it comes after.
C7_Witness ==
    /\ DaaCase
    /\ Len(ClassifiedSequence) = 3
    /\ Cardinality(daa_out.mergeset_non_daa) = 1
    /\ ~SortableLess(ClassifiedSequence[2], WindowMinimum)
    /\ SortableLess(ClassifiedSequence[3], WindowMinimum)
    /\ daa_out.daa_score = headers_store[ghostdag_data.selected_parent].daa_score + 2

----------------------------------------------------------------------------
(* Claims on anticone *)

\* the blocks in tips or reachable from tips through parent edges
PastOfTips ==
    {tips[i] : i \in 1..Len(tips)} \cup UNION {Past(tips[i]) : i \in 1..Len(tips)}

\* the blocks of PastOfTips that are neither block, nor in its past, nor in
\* its future
AnticoneOfBlock ==
    {x \in PastOfTips : x # block /\ x \notin Past(block) /\ block \notin Past(x)}

UnlimitedReturned == anticone_out.status = "ok" /\ max_traversal_allowed = {}

\* C10: without a traversal limit anticone returns, each exactly once, exactly
\* the blocks in tips or reachable from tips that are neither block, nor an
\* ancestor of block, nor a descendant of block; it returns the empty sequence
\* for tips = {block}.
C10_AnticoneIsExact ==
    /\ (anticone_out # AnticoneNotCalled /\ max_traversal_allowed = {})
           => anticone_out.status = "ok"
    /\ UnlimitedReturned =>
        LET result == anticone_out.st.anticone IN
          /\ {result[i] : i \in 1..Len(result)} = AnticoneOfBlock
          /\ \A i, j \in 1..Len(result) : result[i] = result[j] => i = j
          /\ tips = <<block>> => result = <<>>

\* C10 witness: a call without limit returned a block after it met a
\* descendant of block, an ancestor of block and a block already visited.
C10_Witness ==
    /\ UnlimitedReturned
    /\ Len(anticone_out.st.anticone) = 1
    /\ \E x \in anticone_out.st.visited : block \in Past(x)
    /\ \E x \in anticone_out.st.visited : x \in Past(block)
    /\ anticone_out.st.dequeued > Cardinality(anticone_out.st.visited)

\* the blocks in tips or reachable from tips that are neither block nor
\* DAG-ancestors of block
NotBelowBlock == {x \in PastOfTips : x # block /\ x \notin Past(block)}

LimitedCalled == anticone_out # AnticoneNotCalled /\ max_traversal_allowed # {}

\* C11: with max_traversal_allowed = m, anticone fails with
\* ReachedMaxTraversalAllowed(m + 1, m) if and only if more than m distinct
\* blocks in tips or reachable from tips are neither block nor DAG-ancestors
\* of block; otherwise it returns the sequence of the call without a limit.
\* With m = 0 it fails at the first dequeued block that is not skipped.
C11_FailsIffAboveLimit ==
    LimitedCalled =>
        LET m == CHOOSE x \in max_traversal_allowed : TRUE
            st == anticone_out.st
        IN  /\ anticone_out.status = "err" <=> Cardinality(NotBelowBlock) > m
            /\ anticone_out.status = "err" => st.traversal_count = m + 1
            /\ anticone_out.status = "ok" =>
                   st.anticone = anticone(block, tips, {}).st.anticone
            /\ (m = 0 /\ anticone_out.status = "err") =>
                   /\ st.expanded = <<>>
                   /\ st.anticone = <<>>
                   /\ Cardinality({x \in st.visited : ~is_dag_ancestor_of(x, block)}) = 1

\* C11 witness: a call with limit 1 failed after it had expanded one block,
\* and had dequeued an ancestor of block.
C11_Witness ==
    /\ LimitedCalled
    /\ max_traversal_allowed = {1}
    /\ anticone_out.status = "err"
    /\ Len(anticone_out.st.expanded) = 1
    /\ \E x \in anticone_out.st.visited : x \in Past(block)

AnticoneCalled == anticone_out # AnticoneNotCalled

\* C12 (as stated): every dequeued node, the nodes already visited and the
\* DAG-ancestors of block included, increments the traversal counter.
C12_CountsEveryDequeued ==
    AnticoneCalled => anticone_out.st.traversal_count = anticone_out.st.dequeued

\* C12 (amended): the traversal counter is the number of distinct dequeued
\* blocks that are neither block nor DAG-ancestors of block; a block dequeued
\* again and a block that is block or its ancestor leave it unchanged.
C12_CountsFirstVisitsNotBelowBlock ==
    AnticoneCalled =>
        LET st == anticone_out.st
        IN  /\ st.traversal_count =
                   Cardinality({x \in st.visited : x # block /\ x \notin Past(block)})
            /\ st.traversal_count <= st.dequeued
            /\ st.dequeued - st.traversal_count >=
                   Cardinality({x \in st.visited : x = block \/ x \in Past(block)})

\* C12 witness: a call counted a block, dequeued an ancestor of block and
\* dequeued a block a second time, and counted neither of the two.
C12_Witness ==
    /\ AnticoneCalled
    /\ anticone_out.status = "ok"
    /\ anticone_out.st.traversal_count >= 1
    /\ \E x \in anticone_out.st.visited : x \in Past(block)
    /\ anticone_out.st.dequeued > Cardinality(anticone_out.st.visited)
    /\ anticone_out.st.traversal_count + 2 <= anticone_out.st.dequeued

ChainPathCalled == chain_path_out # ChainNotCalled

\* the selected chain of a block from the block down to genesis
ChainOf(b) == default_backward_chain_iterator(b)

\* the position on the chain of from of its first chain ancestor of to
FirstCommon ==
    CHOOSE i \in 1..Len(ChainOf(from)) :
        /\ is_chain_ancestor_of(ChainOf(from)[i], to)
        /\ \A j \in 1..(i - 1) : ~is_chain_ancestor_of(ChainOf(from)[j], to)

\* C13: calculate_chain_path(from, to) returns removed = the chain blocks met
\* walking backward from `from` (inclusive) until, and not including, the
\* first chain ancestor of `to`, in walking order, and added = the chain
\* blocks strictly above that common ancestor up to and including `to`, in
\* root-to-tip order; both are empty when from = to, and removed is empty
\* when `from` is a chain ancestor of `to`.
C13_ChainPath ==
    ChainPathCalled =>
        LET common == ChainOf(from)[FirstCommon]
            above == {b \in ChainBlocks :
                        /\ is_chain_ancestor_of(b, to)
                        /\ is_chain_ancestor_of(common, b)
                        /\ b # common}
            added == chain_path_out.added
        IN  /\ chain_path_out.status = "ok"
            /\ chain_path_out.removed = SubSeq(ChainOf(from), 1, FirstCommon - 1)
            /\ {added[i] : i \in 1..Len(added)} = above
            /\ Len(added) = Cardinality(above)
            /\ \A i \in 1..(Len(added) - 1) :
                   compact_data[added[i + 1]].selected_parent = added[i]
            /\ added # <<>> =>
                   /\ added[Len(added)] = to
                   /\ compact_data[added[1]].selected_parent = common
            /\ from = to => (added = <<>> /\ chain_path_out.removed = <<>>)
            /\ is_chain_ancestor_of(from, to) => chain_path_out.removed = <<>>

\* C13 witness: a call returned two removed blocks and two added blocks.
C13_Witness ==
    /\ ChainPathCalled
    /\ chain_path_out.status = "ok"
    /\ Len(chain_path_out.removed) = 2
    /\ Len(chain_path_out.added) = 2

\* the path of the call in the other direction
PathBack == calculate_chain_path(to, from)

\* C14 (as stated): calculate_chain_path(b, a) is calculate_chain_path(a, b)
\* with its fields swapped, as ordered sequences.
C14_SwappedAsSequences ==
    ChainPathCalled =>
        /\ PathBack.added = chain_path_out.removed
        /\ PathBack.removed = chain_path_out.added

\* C14 (amended): the added sequence of one call holds the blocks of the
\* removed sequence of the other call in the reverse order (added runs from
\* root to tip, removed from tip to root).
C14_SwappedInReverseOrder ==
    ChainPathCalled =>
        /\ PathBack.status = "ok"
        /\ PathBack.added = reverse(chain_path_out.removed)
        /\ PathBack.removed = reverse(chain_path_out.added)

\* C14 witness: a call returned two removed blocks and one added block, so
\* the call in the other direction walks the same three blocks.
C14_Witness ==
    /\ ChainPathCalled
    /\ Len(chain_path_out.removed) = 2
    /\ Len(chain_path_out.added) = 1
    /\ Len(PathBack.added) = 2

LowestCalled == lowest_out # LowestNotCalled

BlueScoreOf(b) == compact_data[b].blue_score

\* the linear chain of five blocks with the blue scores 0, 1, 2, 3, 4
LinearChain ==
    /\ NumChainBlocks >= 5
    /\ \A b \in 1..5 :
         /\ BlueScoreOf(b) = b - 1
         /\ compact_data[b].selected_parent = b - 1

\* C15: when blue_score(high) >= s the call returns a block R on the selected
\* chain of high such that blue_score(R) >= s, every chain block between high
\* and R has blue score >= s, and R is genesis or its selected parent has a
\* blue score below s; it returns high when s = blue_score(high), and the
\* block of blue score 2 on the linear chain [0,1,2,3,4] queried from the tip
\* with s = 2.
C15_LowestChainBlock ==
    (LowestCalled /\ BlueScoreOf(high) >= blue_score) =>
        /\ lowest_out.status = "ok"
        /\ LET R == lowest_out.block
               chain == ChainOf(high)
           IN  /\ \E i \in 1..Len(chain) :
                     /\ chain[i] = R
                     /\ \A j \in 1..i : BlueScoreOf(chain[j]) >= blue_score
               /\ R = Genesis \/ BlueScoreOf(compact_data[R].selected_parent) < blue_score
               /\ blue_score = BlueScoreOf(high) => R = high
               /\ (LinearChain /\ high = 5 /\ blue_score = 2) => BlueScoreOf(R) = 2

\* C15 witness: on the linear chain [0,1,2,3,4] the query from the tip with
\* target 2 walked down two blocks and returned the block of blue score 2.
C15_Witness ==
    /\ LowestCalled
    /\ LinearChain
    /\ high = 5
    /\ blue_score = 2
    /\ lowest_out.status = "ok"
    /\ lowest_out.block = 3
    /\ lowest_out.st.walked = <<5, 4, 3>>

EstimateCalled == hashes_out # EstimateNotCalled

UnderMinWindowSize ==
    [status |-> "err", error |-> "UnderMinWindowSizeAllowed",
     window_size |-> Len(window), min_window_size |-> MIN_WINDOW_SIZE]

C17_EmptyWindowReturnsZero ==
    (EstimateCalled /\ window = <<>>) => hashes_out = [status |-> "ok", value |-> 0]

\* the timestamps of the window members
WindowTimestamps == {headers_store[window[i].hash].timestamp : i \in 1..Len(window)}

ElapsedMillis ==
    LET stamps == WindowTimestamps
    IN  (CHOOSE x \in stamps : \A y \in stamps : x >= y)
            - (CHOOSE x \in stamps : \A y \in stamps : x <= y)

FullEstimateCalled == EstimateCalled /\ Len(window) >= MIN_WINDOW_SIZE

\* C18 (as stated): for every window of at least the minimum sample count,
\* when floor((max_timestamp - min_timestamp) / 1000) is zero the call
\* returns the value 0.
C18_ZeroSecondsReturnsZero ==
    (FullEstimateCalled /\ ElapsedMillis \div 1000 = 0)
        => hashes_out = [status |-> "ok", value |-> 0]

\* C18 (amended): for every window of at least the minimum sample count whose
\* maximum timestamp is above its minimum timestamp by less than 1000 ms the
\* call returns the value 0; when the two are equal it returns the error
\* EmptyTimestampRange.
C18_ZeroSecondsReturnsZeroUnlessEmptyRange ==
    (FullEstimateCalled /\ ElapsedMillis \div 1000 = 0) =>
        hashes_out = IF ElapsedMillis = 0
                     THEN [status |-> "err", error |-> "EmptyTimestampRange"]
                     ELSE [status |-> "ok", value |-> 0]

\* C18 witness: a window of 1000 members with timestamps 999 ms apart and
\* different blue works got the value 0.
C18_Witness ==
    /\ FullEstimateCalled
    /\ ElapsedMillis = 999
    /\ window[2].blue_work > window[1].blue_work
    /\ hashes_out = [status |-> "ok", value |-> 0]

\* C19: for every window of at least the minimum sample count whose members
\* all carry the same timestamp the call returns the error
\* EmptyTimestampRange.
C19_EmptyTimestampRange ==
    (FullEstimateCalled /\ Cardinality(WindowTimestamps) = 1)
        => hashes_out = [status |-> "err", error |-> "EmptyTimestampRange"]

\* C19 witness: a window of 1001 members that all carry the same timestamp,
\* with different blue works, got the error.
C19_Witness ==
    /\ FullEstimateCalled
    /\ Len(window) = 1001
    /\ WindowTimestamps = {FillerTimestamp}
    /\ window[2].blue_work > window[1].blue_work
    /\ hashes_out = [status |-> "err", error |-> "EmptyTimestampRange"]

\* the outcome of a call that aborted
DaaAborted == [daa_score |-> Panic, mergeset_non_daa |-> {}]

\* take_while reached the selected parent, so line 50 looked up its blue work:
\* every other mergeset block is below the lowest window block
SelectedParentLookedUp ==
    LET others == ascending_mergeset_without_selected_parent(ghostdag_data, ghostdag_store)
        lowest == IF window = <<>>
                  THEN [hash |-> DefaultHash, blue_work |-> BlueWorkTypeMAX]
                  ELSE window_peek(window)
    IN  \A i \in 1..Len(others) : SortableLess(others[i], lowest)

\* C20: a store lookup that finds no entry aborts the operation; in
\* particular calc_daa_score_and_non_daa_mergeset_blocks returns no result
\* when the ghostdag store has no blue work for the selected parent.
C20_MissingBlueWorkAborts ==
    (/\ DaaCalled
     /\ ghostdag_data.selected_parent \notin DOMAIN ghostdag_store
     /\ SelectedParentLookedUp) => daa_out = DaaAborted

\* the blue works of the window members
WindowBlueWorkValues == {window[i].blue_work : i \in 1..Len(window)}

BlueWorkSpread ==
    LET works == WindowBlueWorkValues
    IN  (CHOOSE x \in works : \A y \in works : x >= y)
            - (CHOOSE x \in works : \A y \in works : x <= y)

\* C22: for every window that passes the size and timestamp guards with
\* elapsed seconds d >= 1 the call returns exactly
\* floor((max_blue_work - min_blue_work) / d).
C22_ReturnsExactQuotient ==
    (FullEstimateCalled /\ ElapsedMillis \div 1000 >= 1) =>
        hashes_out = [status |-> "ok",
                      value |-> BlueWorkSpread \div (ElapsedMillis \div 1000)]

\* C23: before averaging, calculate_difficulty_bits removes exactly one
\* member from the working set, the one of minimum timestamp (among several,
\* the lowest in (blue_work, hash) order, whatever its position); the target
\* of every other member, the maximum-timestamp member included, enters the
\* average.
C23_RemovesOnlyEarliestMember ==
    (DifficultyCalled /\ window # <<>>
        /\ Len(window) >= difficulty_adjustment_window_size) =>
        LET blocks == get_difficulty_blocks(headers_store, window)
            index == position_min(blocks)
            removed == blocks[index]
            rest == swap_remove(blocks, index)
            members == WindowMembers
            min_ts == MinTimestamp
            elapsed == Max(MaxTimestamp - min_ts, 1)
        IN  /\ removed.timestamp = min_ts
            /\ \A m \in members \ {removed} :
                   m.timestamp = min_ts =>
                       \/ removed.sortable_block.blue_work < m.sortable_block.blue_work
                       \/ /\ removed.sortable_block.blue_work = m.sortable_block.blue_work
                          /\ removed.sortable_block.hash < m.sortable_block.hash
            /\ Len(rest) = Len(blocks) - 1
            /\ {rest[i] : i \in 1..Len(rest)} = members \ {removed}
            /\ bits_out # Panic =>
                   bits_out = compact_target_bits(
                       (((targets_sum(rest) \div Len(rest)) * elapsed)
                            \div target_time_per_block) \div Len(rest))

\* C23 witness: in a window of three members the one removed shares the
\* minimum timestamp with the first member and comes after it, and the
\* member of maximum timestamp stays in the average.
C23_Witness ==
    /\ DifficultyCalled
    /\ Len(window) = 3
    /\ Len(window) >= difficulty_adjustment_window_size
    /\ bits_out # Panic
    /\ LET blocks == get_difficulty_blocks(headers_store, window)
       IN  /\ position_min(blocks) = 2
           /\ blocks[1].timestamp = blocks[2].timestamp
           /\ blocks[1].bits # blocks[2].bits
           /\ blocks[3].timestamp > blocks[1].timestamp

\* C24: when the window is empty every mergeset member and the selected
\* parent are classified non-DAA, for every blue work they can carry (the
\* maximal one included), so the DAA score is that of the selected parent.
C24_EmptyWindowAllNonDaa ==
    (/\ DaaCalled
     /\ window = <<>>
     /\ ghostdag_data.selected_parent \in DOMAIN ghostdag_store) =>
        /\ daa_out.mergeset_non_daa =
               ghostdag_data.mergeset_blues \cup ghostdag_data.mergeset_reds
        /\ daa_out.daa_score = headers_store[ghostdag_data.selected_parent].daa_score

\* C25: the call terminates for every high and every target <=
\* blue_score(high): the walk never steps past genesis, and when every chain
\* block has a blue score >= target it returns genesis without looking up the
\* selected parent of genesis.
C25_WalkEndsAtGenesis ==
    (LowestCalled /\ BlueScoreOf(high) >= blue_score) =>
        LET walked == lowest_out.st.walked
            lookups == lowest_out.st.lookups
            chain == ChainOf(high)
        IN  /\ lowest_out.status = "ok"
            /\ Len(walked) <= Len(chain)
            /\ walked = SubSeq(chain, 1, Len(walked))
            /\ \A i \in 1..Len(lookups) : lookups[i] # Origin
            /\ Len(lookups) <= Len(chain)
            /\ (\A i \in 1..Len(chain) : BlueScoreOf(chain[i]) >= blue_score) =>
                   /\ lowest_out.block = Genesis
                   /\ walked = chain
                   /\ lookups = chain

\* C25 witness: a walk from a block three steps above genesis with target 0
\* went down the whole chain and returned genesis.
C25_Witness ==
    /\ LowestCalled
    /\ blue_score = 0
    /\ Len(ChainOf(high)) = 4
    /\ lowest_out.status = "ok"
    /\ lowest_out.block = Genesis
    /\ Len(lowest_out.st.lookups) = 4

\* C26: anticone terminates on every finite DAG and expands the parents of
\* each block at most once, also when tips holds a block several times or a
\* block is reachable along several paths; a block that is block or a
\* DAG-ancestor of block never has its parents enqueued.
C26_ExpandsEachBlockOnce ==
    AnticoneCalled =>
        LET expanded == anticone_out.st.expanded
        IN  /\ anticone_out.status \in {"ok", "err"}
            /\ \A i, j \in 1..Len(expanded) : expanded[i] = expanded[j] => i = j
            /\ \A i \in 1..Len(expanded) :
                   expanded[i] # block /\ expanded[i] \notin Past(block)
            /\ anticone_out.status = "ok" =>
                   /\ anticone_out.st.queue = <<>>
                   /\ {expanded[i] : i \in 1..Len(expanded)} = NotBelowBlock

\* C26 witness: tips held the same block twice, and a parent of that block,
\* reached from it directly and through another parent, was expanded once.
C26_Witness ==
    /\ AnticoneCalled
    /\ anticone_out.status = "ok"
    /\ Len(tips) = 2
    /\ tips[1] = tips[2]
    /\ \E g \in relations_store[tips[1]] :
         /\ \E p \in relations_store[tips[1]] : g \in relations_store[p]
         /\ \E i \in 1..Len(anticone_out.st.expanded) : anticone_out.st.expanded[i] = g
    /\ anticone_out.st.dequeued >= Len(anticone_out.st.expanded) + 2

\* C28: after any sequence of try_push calls the number of blocks held never
\* exceeds size_bound, for every size_bound including 0.
C28_NeverExceedsSizeBound == BagCardinality(binary_heap) <= size_bound

\* C29: calculate_difficulty_bits returns bits without aborting for every
\* window of at least difficulty_adjustment_window_size members, all present
\* in the header store, for every configured window size including 0 and 1;
\* stated for the windows of at most one member, where no target is large
\* enough to overflow.
C29_ReturnsWithoutAborting ==
    (/\ DifficultyCalled
     /\ Len(window) >= difficulty_adjustment_window_size
     /\ Len(window) <= 1
     /\ \A i \in 1..Len(window) : window[i].hash \in DOMAIN headers_store)
        => bits_out # Panic

\* C21: a started CollectorFrom hands the notifier the items sent on its
\* channel, converted with Into, in the order they were sent, none dropped,
\* duplicated or reordered; and when stop returns Ok every collecting task
\* that ran when stop was called has acknowledged the shutdown and ended.
C21_ForwardsInOrderAndStopAcknowledged ==
    /\ Len(notified) <= Len(sent)
    /\ \A i \in 1..Len(notified) : notified[i] = Into(sent[i])
    /\ stop_ret = "Ok" => stop_tasks = {}

\* C27: the collecting task is spawned at most once over the collector's
\* life, so no two collecting tasks run at the same time.
C27_SpawnedAtMostOnce ==
    /\ Spawned <= 1
    /\ Cardinality({t \in TaskIds : Running(t)}) <= 1

\* C30: every call of broadcast terminates: once started it returns.
C30_BroadcastTerminates == (broadcast_pc # "idle") ~> (broadcast_pc = "idle")

====
